---- MODULE Spec2Model ----
(***************************************************************************)
(* Model of pyod/models/so_gaal.py: the SO_GAAL detector.                  *)
(*                                                                         *)
(* One detector instance.  State = the instance attributes written by fit  *)
(* (discriminator, generator, combine_model, train_history,                *)
(* decision_scores_), the locals of the running fit call (stop, epochs,    *)
(* epoch, index, batch_size, num_batches) and a few history variables that *)
(* record what a call did (batches, epochsRun, ret, dfScores).             *)
(*                                                                         *)
(* Network weights are opaque numbers in the source.  A network is         *)
(* modelled by the fit call that built it and the number of optimizer      *)
(* steps applied to it since; predict() is a deterministic function of     *)
(* those weights and of the input rows.                                    *)
(***************************************************************************)
EXTENDS Integers, Sequences, FiniteSets

\* ----- bounds of the model ------------------------------------------------
MaxCalls == 2      \* calls of fit / decision_function in one behaviour
MaxStop  == 2      \* largest stop_epochs the instance is constructed with
MaxNeg   == 1      \* stop_epochs ranges over -MaxNeg .. MaxStop
SmallMax == 2      \* training sizes 1 .. SmallMax
MaxFull  == 2      \* training sizes around k * 500 for k in 1 .. MaxFull

\* ----- program constants --------------------------------------------------
BatchCap    == 500
EpochFactor == 3

Min(a, b) == IF a < b THEN a ELSE b

StopEpochsSet == (0 - MaxNeg) .. MaxStop

SampleSizes ==
  (1 .. SmallMax)
    \cup { k * BatchCap + d : k \in 1 .. MaxFull, d \in {0 - 1, 0, 1} }
    \cup { 1200 }

\* A matrix handed to fit or decision_function.  id tells two matrices of the
\* same shape apart; valid is the verdict of check_array.
InvalidX == [valid |-> FALSE, id |-> 0, rows |-> 0]
TwinX    == [valid |-> TRUE, id |-> 0, rows |-> SmallMax]
ValidXs  == { [valid |-> TRUE, id |-> n, rows |-> n] : n \in SampleSizes }
              \cup { TwinX }
Inputs   == ValidXs \cup { InvalidX }
Ys       == { "None", "labels" }

check_array(X) == X.valid

\* math.ceil(math.sqrt(data_size))
CeilSqrt(n) == CHOOSE k \in 0 .. n : k * k >= n /\ (k = 0 \/ (k - 1) * (k - 1) < n)

NoNet == [exists |-> FALSE, fit |-> 0, steps |-> 0, hidden |-> 0]

create_discriminator(f, data_size) ==
  [exists |-> TRUE, fit |-> f, steps |-> 0, hidden |-> CeilSqrt(data_size)]

create_generator(f) ==
  [exists |-> TRUE, fit |-> f, steps |-> 0, hidden |-> 0]

\* Model(latent, discriminator(generator(latent))): shares both networks'
\* weights, so it carries nothing but the fit call that built it.
CombineModel(f) == [exists |-> TRUE, fit |-> f]

NoHistory    == [exists |-> FALSE, discriminator_loss |-> <<>>, generator_loss |-> <<>>]
EmptyHistory == [exists |-> TRUE, discriminator_loss |-> <<>>, generator_loss |-> <<>>]

\* network.predict(X): one score per row, in row order, a function of the
\* weights (fit, steps) and of the row.
Predict(net, X) == [r \in 1 .. X.rows |-> <<net.fit, net.steps, X.id, r - 1>>]

\* X[a:b] for 0 <= a <= b: the rows lo .. hi-1, both ends clipped to the length
Slice(X, a, b) == [lo |-> Min(a, X.rows), hi |-> Min(b, X.rows)]

\* BaseDetector._set_n_classes(y)
SetNClasses(y) == IF y = "None" THEN "2" ELSE "unique(y)"

NoScores == [exists |-> FALSE, v |-> <<>>]
NoRet    == [call |-> "none", outcome |-> "none", value |-> "none",
             X |-> InvalidX, y |-> "None"]

VARIABLES
  stop_epochs,        \* self.stop_epochs, set by __init__
  discriminator,      \* self.discriminator
  generator,          \* self.generator
  combine_model,      \* self.combine_model
  train_history,      \* self.train_history
  decision_scores_,   \* self.decision_scores_
  labels_,            \* what _process_decision_scores derived, and from what
  n_classes,          \* self._classes
  pc,                 \* "idle" or "batch" (inside fit's loops)
  curX, curY,         \* arguments of the running / last fit call
  stop, epochs, epoch, index, batch_size, num_batches,  \* locals of fit
  fitId,              \* number of fit calls that passed validation
  calls,              \* number of calls made
  batches,            \* the batches the current fit call trained on
  epochsRun,          \* epochs whose batch loop the current fit call completed
  rejected,           \* number of fit calls that failed validation
  ret,                \* outcome of the last call
  dfScores            \* scores returned by the last decision_function call

vars == <<stop_epochs, discriminator, generator, combine_model, train_history,
          decision_scores_, labels_, n_classes, pc, curX, curY, stop, epochs,
          epoch, index, batch_size, num_batches, fitId, calls, batches,
          epochsRun, rejected, ret, dfScores>>

instanceVars == <<discriminator, generator, combine_model, train_history,
                  decision_scores_, labels_, n_classes>>
localVars    == <<stop, epochs, epoch, index, batch_size, num_batches>>

\* SO_GAAL.__init__
Init ==
  /\ stop_epochs \in StopEpochsSet
  /\ discriminator = NoNet
  /\ generator = NoNet
  /\ combine_model = [exists |-> FALSE, fit |-> 0]
  /\ train_history = NoHistory
  /\ decision_scores_ = NoScores
  /\ labels_ = NoScores
  /\ n_classes = "unset"
  /\ pc = "idle"
  /\ curX = InvalidX
  /\ curY = "None"
  /\ stop = 0 /\ epochs = 0 /\ epoch = 0 /\ index = 0
  /\ batch_size = 0 /\ num_batches = 0
  /\ fitId = 0
  /\ calls = 0
  /\ batches = <<>>
  /\ epochsRun = 0
  /\ rejected = 0
  /\ ret = NoRet
  /\ dfScores = <<>>

\* fit, line 176: check_array raises before anything is assigned
FitRejected(X, y) ==
  /\ pc = "idle"
  /\ calls < MaxCalls
  /\ ~check_array(X)
  /\ calls' = calls + 1
  /\ rejected' = rejected + 1
  /\ ret' = [call |-> "fit", outcome |-> "raise", value |-> "ValueError",
             X |-> X, y |-> y]
  /\ dfScores' = <<>>
  /\ UNCHANGED <<stop_epochs, instanceVars, localVars, pc, curX, curY, fitId,
                 batches, epochsRun>>

\* the history created only when the instance has none yet
KeepHistory(old) == IF old.exists THEN old ELSE EmptyHistory

\* fit, line 182
NewHistory(old) == EmptyHistory

\* fit, line 202
BatchSize(data_size) == Min(BatchCap, data_size)

\* a final, partial batch for the remainder
NumBatchesCeil(data_size, bs) == (data_size + bs - 1) \div bs

\* fit, line 203: int(data_size / batch_size), a truncated true division; the
\* quotient is at least 1 and far below 2^53, so it is the integer quotient
NumBatches(data_size, bs) == data_size \div bs

\* fit, lines 176-203: validation, set-up, entry of the epoch loop.  With
\* epochs <= 0 the loop body never runs and the function falls off its end.
FitBegin(X, y) ==
  /\ pc = "idle"
  /\ calls < MaxCalls
  /\ check_array(X)
  /\ calls' = calls + 1
  /\ fitId' = fitId + 1
  /\ n_classes' = SetNClasses(y)
  /\ curX' = X
  /\ curY' = y
  /\ stop' = 0
  /\ epochs' = stop_epochs * EpochFactor
  /\ train_history' = NewHistory(train_history)
  /\ discriminator' = create_discriminator(fitId', X.rows)
  /\ generator' = create_generator(fitId')
  /\ combine_model' = CombineModel(fitId')
  /\ batches' = <<>>
  /\ epochsRun' = 0
  /\ dfScores' = <<>>
  /\ epoch' = 0
  /\ index' = 0
  /\ IF epochs' > 0
       THEN /\ batch_size' = BatchSize(X.rows)
            /\ num_batches' = NumBatches(X.rows, batch_size')
            /\ pc' = "batch"
            /\ ret' = [call |-> "fit", outcome |-> "pending", value |-> "none",
                       X |-> X, y |-> y]
       ELSE /\ batch_size' = 0
            /\ num_batches' = 0
            /\ pc' = "idle"
            /\ ret' = [call |-> "fit", outcome |-> "return", value |-> "None",
                       X |-> X, y |-> y]
  /\ UNCHANGED <<stop_epochs, decision_scores_, labels_, rejected>>

\* fit, lines 229-237: the generator phase of one batch.  train_on_batch on
\* the combined model moves the generator's weights (the discriminator inside
\* it is frozen); evaluate moves nothing.
GeneratorPhase(gen, st) ==
  IF st = 0 THEN [gen EXCEPT !.steps = @ + 1] ELSE gen

\* fit, lines 205-237: one pass of the batch loop
Batch ==
  /\ pc = "batch"
  /\ index < num_batches
  /\ LET noise_size == batch_size
         data_batch == Slice(curX, index * batch_size, (index + 1) * batch_size)
         order      == Len(train_history.discriminator_loss)
                         + Len(train_history.generator_loss)
         dloss == [fit |-> discriminator.fit, epoch |-> epoch, index |-> index,
                   order |-> order, how |-> "train_on_batch"]
         gloss == [fit |-> generator.fit, epoch |-> epoch, index |-> index,
                   order |-> order + 1,
                   how |-> IF stop = 0 THEN "train_on_batch" ELSE "evaluate"]
     IN /\ batches' = Append(batches,
                        [lo |-> data_batch.lo, hi |-> data_batch.hi,
                         epoch |-> epoch, index |-> index,
                         noise |-> noise_size,
                         x |-> (data_batch.hi - data_batch.lo) + noise_size,
                         y |-> batch_size + noise_size,
                         stop |-> stop])
        /\ discriminator' = [discriminator EXCEPT !.steps = @ + 1]
        /\ generator' = GeneratorPhase(generator, stop)
        /\ train_history' =
             [train_history EXCEPT
                !.discriminator_loss = Append(@, dloss),
                !.generator_loss = Append(@, gloss)]
  /\ index' = index + 1
  /\ UNCHANGED <<stop_epochs, combine_model, decision_scores_, labels_,
                 n_classes, pc, curX, curY, stop, epochs, epoch, batch_size,
                 num_batches, fitId, calls, epochsRun, rejected, ret, dfScores>>

\* the comparison of line 240 with >= in place of >
StopAfterOffByOne(e, st) == IF e + 1 >= stop_epochs THEN 1 ELSE st

\* fit, lines 240-241
StopAfter(e, st) == IF e + 1 > stop_epochs THEN 1 ELSE st

\* BaseDetector._process_decision_scores(): threshold_ and labels_ derived
\* from decision_scores_, one label per score
ProcessDecisionScores(scores) ==
  [exists |-> TRUE, v |-> [i \in 1 .. Len(scores.v) |-> scores.v[i]]]

\* The loop tail with the detection result and the return one level further
\* out: the epoch loop goes on until range(epochs) is exhausted.
EpochEndAfterLoop ==
  /\ pc = "batch"
  /\ index = num_batches
  /\ stop' = StopAfter(epoch, stop)
  /\ epochsRun' = epochsRun + 1
  /\ IF epoch + 1 < epochs
       THEN /\ epoch' = epoch + 1
            /\ index' = 0
            /\ UNCHANGED <<decision_scores_, labels_, pc, ret, discriminator>>
       ELSE /\ decision_scores_' = [exists |-> TRUE, v |-> Predict(discriminator, curX)]
            /\ labels_' = ProcessDecisionScores(decision_scores_')
            /\ pc' = "idle"
            /\ ret' = [ret EXCEPT !.outcome = "return", !.value = "self"]
            /\ UNCHANGED <<epoch, index, discriminator>>
  /\ UNCHANGED <<stop_epochs, generator, combine_model, train_history,
                 n_classes, curX, curY, epochs, batch_size, num_batches, fitId,
                 calls, batches,
                 rejected, dfScores>>

\* The loop tail with one more discriminator step after the scores are taken.
EpochEndTrainAfterScores ==
  /\ pc = "batch"
  /\ index = num_batches
  /\ stop' = StopAfter(epoch, stop)
  /\ epochsRun' = epochsRun + 1
  /\ decision_scores_' = [exists |-> TRUE, v |-> Predict(discriminator, curX)]
  /\ labels_' = ProcessDecisionScores(decision_scores_')
  /\ discriminator' = [discriminator EXCEPT !.steps = @ + 1]
  /\ pc' = "idle"
  /\ ret' = [ret EXCEPT !.outcome = "return", !.value = "self"]
  /\ UNCHANGED <<stop_epochs, generator, combine_model, train_history,
                 n_classes, curX, curY, epochs, epoch, index, batch_size,
                 num_batches, fitId, calls, batches,
                 rejected, dfScores>>

\* fit, lines 239-246: the tail of the first pass of the epoch loop.  The
\* return statement is inside the loop body, so the pass that reaches it is
\* the last one.
EpochEnd ==
  /\ pc = "batch"
  /\ index = num_batches
  /\ stop' = StopAfter(epoch, stop)
  /\ epochsRun' = epochsRun + 1
  /\ decision_scores_' = [exists |-> TRUE, v |-> Predict(discriminator, curX)]
  /\ labels_' = ProcessDecisionScores(decision_scores_')
  /\ pc' = "idle"
  /\ ret' = [ret EXCEPT !.outcome = "return", !.value = "self"]
  /\ UNCHANGED <<stop_epochs, discriminator, generator, combine_model,
                 train_history, n_classes, curX, curY, epochs, epoch, index,
                 batch_size, num_batches, fitId, calls, batches,
                 rejected, dfScores>>

\* decision_function with the two checks in the other order
DecisionOutcomeValidateFirst(dis, X) ==
  IF ~check_array(X) THEN "ValueError"
  ELSE IF ~dis.exists THEN "NotFittedError"
  ELSE "scores"

\* decision_function, lines 249-252: check_is_fitted, then check_array, then
\* predict
DecisionOutcome(dis, X) ==
  IF ~dis.exists THEN "NotFittedError"
  ELSE IF ~check_array(X) THEN "ValueError"
  ELSE "scores"

\* decision_function, lines 248-252
DecisionFunction(X) ==
  /\ pc = "idle"
  /\ calls < MaxCalls
  /\ calls' = calls + 1
  /\ LET out == DecisionOutcome(discriminator, X)
     IN /\ ret' = [call |-> "decision_function",
                   outcome |-> IF out = "scores" THEN "return" ELSE "raise",
                   value |-> out, X |-> X, y |-> "None"]
        /\ dfScores' = IF out = "scores" THEN Predict(discriminator, X) ELSE <<>>
  /\ UNCHANGED <<stop_epochs, instanceVars, localVars, pc, curX, curY, fitId,
                 batches, epochsRun, rejected>>

Next ==
  \/ \E X \in Inputs, y \in Ys : FitRejected(X, y)
  \/ \E X \in Inputs, y \in Ys : FitBegin(X, y)
  \/ Batch
  \/ EpochEnd
  \/ \E X \in Inputs : DecisionFunction(X)

Spec == Init /\ [][Next]_vars

\* ----- properties ----------------------------------------------------------

\* the last call was a fit call that came back to its caller
Returned == pc = "idle" /\ ret.call = "fit" /\ ret.outcome = "return"

Range(q) == { q[i] : i \in 1 .. Len(q) }

\* C1: when fit(X) returns, decision_scores_ is set and holds exactly
\* n_samples entries, the i-th being the discriminator's score of row i of X,
\* for every stop_epochs the instance was constructed with.
C1_ScoresPerRow ==
  Returned =>
    /\ decision_scores_.exists
    /\ Len(decision_scores_.v) = curX.rows
    /\ \A i \in 1 .. Len(decision_scores_.v) :
         decision_scores_.v[i]
           = <<discriminator.fit, discriminator.steps, curX.id, i - 1>>

\* C2: fit(X, y) returns the instance itself for every stop_epochs, and the
\* batches it trained on are windows of X fixed by X alone, whatever y is.
C2_ReturnsSelf ==
  Returned =>
    /\ ret.value = "self"
    /\ \A k \in 1 .. Len(batches) :
         /\ batches[k].lo = (k - 1) * Min(BatchCap, curX.rows)
         /\ batches[k].hi = k * Min(BatchCap, curX.rows)

\* C3: as long as no fit call has passed input validation, every
\* decision_function call, on a valid or an invalid X, raises the not-fitted
\* error and returns no score.
C3_NotFittedFirst ==
  (ret.call = "decision_function" /\ fitId = 0) =>
    /\ ret.outcome = "raise"
    /\ ret.value = "NotFittedError"
    /\ dfScores = <<>>

\* an invalid X handed to decision_function after a fit call that failed
\* validation: the not-fitted error wins over the validation error
C3_Witness ==
  /\ ret.call = "decision_function"
  /\ fitId = 0
  /\ rejected = 1
  /\ ~ret.X.valid
  /\ ret.value = "NotFittedError"

\* C4: during and after a fit call that passed validation, the networks, the
\* combined model and every loss entry were made by that call (the networks
\* carry exactly the optimizer steps of its batches), and once it has returned
\* the decision scores and what is derived from them are scores of its X
\* under its discriminator.
C4_LatestFitOwnsState ==
  (ret.call = "fit" /\ ret.outcome \in {"pending", "return"}) =>
    /\ discriminator.exists /\ discriminator.fit = fitId
    /\ generator.exists /\ generator.fit = fitId
    /\ combine_model.exists /\ combine_model.fit = fitId
    /\ train_history.exists
    /\ \A e \in Range(train_history.discriminator_loss) : e.fit = fitId
    /\ \A e \in Range(train_history.generator_loss) : e.fit = fitId
    /\ discriminator.steps = Len(train_history.discriminator_loss)
    /\ discriminator.steps = Len(batches)
    /\ generator.steps <= Len(train_history.generator_loss)
    /\ (Returned /\ decision_scores_.exists) =>
         /\ Len(decision_scores_.v) = curX.rows
         /\ \A i \in 1 .. Len(decision_scores_.v) :
              /\ decision_scores_.v[i][1] = fitId
              /\ decision_scores_.v[i][3] = curX.id
         /\ labels_.exists
         /\ labels_.v = decision_scores_.v

\* a second fit has returned with its own losses and scores
C4_Witness ==
  /\ Returned
  /\ fitId = 2
  /\ decision_scores_.exists
  /\ Len(train_history.discriminator_loss) >= 2
  /\ \A e \in Range(train_history.generator_loss) : e.fit = 2

\* C5: a decision_function call changes neither the discriminator nor
\* decision_scores_, and when it is given the X of the latest fit, whose
\* decision_scores_ were computed, it returns exactly decision_scores_, entry
\* by entry: nothing moved the discriminator after the scores were taken.
C5_SameScores ==
  [][ (calls' # calls /\ ret'.call = "decision_function") =>
        /\ discriminator' = discriminator
        /\ decision_scores_' = decision_scores_
        /\ (ret.call = "fit" /\ ret.outcome = "return" /\ ret'.X = curX
              /\ decision_scores_.exists) =>
             /\ ret'.outcome = "return"
             /\ dfScores' = decision_scores_.v ]_vars

\* decision_function(X) right after fit(X), X of more than one batch
C5_Witness ==
  /\ ret.call = "decision_function"
  /\ ret.outcome = "return"
  /\ ret.X = curX
  /\ decision_scores_.exists
  /\ dfScores = decision_scores_.v
  /\ Len(dfScores) > BatchCap
  /\ discriminator.steps >= 2

\* C6: a fit call with stop_epochs = s >= 1 runs the batch loop for 3*s epochs.
C6_ThreeTimesEpochs ==
  (Returned /\ stop_epochs >= 1) => epochsRun = EpochFactor * stop_epochs

\* C7: batch i is rows [i*bs, (i+1)*bs) of X with bs = min(500, n): every batch
\* has exactly bs rows, all below n, batches are pairwise disjoint, there are
\* floor(n / bs) of them and the n - floor(n / bs) * bs tail rows are in none
\* (n = 1200: bs = 500, 2 batches, 200 rows unused).
C7_BatchWindows ==
  LET n  == curX.rows
      bs == IF n < 500 THEN n ELSE 500
  IN (ret.call = "fit" /\ ret.outcome \in {"pending", "return"}
        /\ stop_epochs >= 1) =>
       /\ batch_size = bs
       /\ num_batches * bs <= n
       /\ n < (num_batches + 1) * bs
       /\ Len(batches) <= num_batches
       /\ \A k \in 1 .. Len(batches) :
            /\ batches[k].index = k - 1
            /\ batches[k].lo = (k - 1) * bs
            /\ batches[k].hi = k * bs
            /\ batches[k].hi - batches[k].lo = bs
            /\ batches[k].hi <= n
            /\ batches[k].hi <= num_batches * bs
            /\ batches[k].x = 2 * bs
            /\ batches[k].y = batches[k].x
       /\ \A j, k \in 1 .. Len(batches) :
            j < k => batches[j].hi <= batches[k].lo
       /\ Returned => Len(batches) = num_batches
       /\ n = 1200 => (bs = 500 /\ num_batches = 2 /\ n - num_batches * bs = 200)

\* the 1200-row case of the claim after both batches
C7_Witness ==
  /\ Returned
  /\ curX.rows = 1200
  /\ Len(batches) = 2
  /\ batches[2].hi = 1000

\* C8: stop is 0 when a fit call starts; it changes only from 0 to 1 and only
\* at the end of an epoch whose index + 1 exceeds stop_epochs; a batch moves
\* the generator's weights exactly when stop = 0 and only evaluates otherwise;
\* either way it appends one discriminator loss and then one generator loss.
C8_StopFlag ==
  [][ /\ (fitId' # fitId) => stop' = 0
      /\ (stop' # stop /\ fitId' = fitId) =>
           /\ stop = 0 /\ stop' = 1
           /\ pc = "batch" /\ index = num_batches
           /\ epoch + 1 > stop_epochs
      /\ (Len(batches') = Len(batches) + 1) =>
           LET dl  == train_history.discriminator_loss
               gl  == train_history.generator_loss
               dl2 == train_history'.discriminator_loss
               gl2 == train_history'.generator_loss
           IN /\ stop' = stop
              /\ (generator' # generator) <=> (stop = 0)
              /\ stop = 0 => generator'.steps = generator.steps + 1
              /\ Len(dl2) = Len(dl) + 1
              /\ Len(gl2) = Len(gl) + 1
              /\ \A i \in 1 .. Len(dl) : dl2[i] = dl[i]
              /\ \A i \in 1 .. Len(gl) : gl2[i] = gl[i]
              /\ dl2[Len(dl2)].order = Len(dl) + Len(gl)
              /\ gl2[Len(gl2)].order = dl2[Len(dl2)].order + 1
              /\ dl2[Len(dl2)].index = index /\ gl2[Len(gl2)].index = index
              /\ gl2[Len(gl2)].how
                   = (IF stop = 0 THEN "train_on_batch" ELSE "evaluate") ]_vars

\* the end of an epoch with stop_epochs = 1, after two batches that each moved
\* the generator and appended their two losses
C8_Witness ==
  /\ Returned
  /\ stop_epochs = 1
  /\ stop = 0
  /\ Len(batches) = 2
  /\ generator.steps = 2
  /\ Len(train_history.generator_loss) = 2
  /\ train_history.generator_loss[2].order = 3

\* C9: with stop_epochs >= 1, fit runs the batch loop of epoch 0 only, takes
\* the scores of the whole of X, processes them and returns the instance;
\* both loss series then hold exactly floor(n / min(500, n)) entries.
C9_OneEpochOnly ==
  (Returned /\ stop_epochs >= 1) =>
    LET n  == curX.rows
        bs == IF n < 500 THEN n ELSE 500
    IN /\ epochsRun = 1
       /\ ret.value = "self"
       /\ \A k \in 1 .. Len(batches) : batches[k].epoch = 0
       /\ Len(train_history.discriminator_loss) = n \div bs
       /\ Len(train_history.generator_loss) = n \div bs
       /\ Len(train_history.discriminator_loss) = num_batches
       /\ decision_scores_.exists
       /\ Len(decision_scores_.v) = n
       /\ labels_.exists

\* stop_epochs = 2 (six epochs computed), two batches per epoch
C9_Witness ==
  /\ Returned
  /\ stop_epochs = 2
  /\ epochs = 6
  /\ num_batches = 2
  /\ Len(train_history.discriminator_loss) = 2

\* C10: for every stop_epochs, no batch is processed with stop = 1: no
\* generator loss comes from evaluate, every discriminator step is matched by
\* a generator step, and stop is 0 whenever the batch loop is running.
C10_EvaluateUnreachable ==
  /\ \A k \in 1 .. Len(batches) : batches[k].stop = 0
  /\ \A e \in Range(train_history.generator_loss) : e.how = "train_on_batch"
  /\ generator.steps = discriminator.steps
  /\ pc = "batch" => stop = 0

\* a positive stop_epochs with all batches of the epoch behind
C10_Witness ==
  /\ Returned
  /\ stop_epochs = 1
  /\ epochs = 3
  /\ Len(batches) = 2
  /\ discriminator.steps = 2
  /\ generator.steps = 2

====
